---- MODULE Spec2Model ----
(***************************************************************************)
(* Usage and cost accounting of src/foundations/token-cost-demo.js:        *)
(* the PRICING table, the CostTracker class and calculateProjectedCosts.   *)
(*                                                                         *)
(* Numbers.  The program computes costs in IEEE doubles.  Every price of   *)
(* the table is a multiple of 0.05 USD and every cost the model computes   *)
(* is tokens / 1_000_000 * price, so the model keeps exact values in fixed *)
(* units:                                                                  *)
(*   a price p stands for p / 20 USD per million tokens,                   *)
(*   a cost  k stands for k / 20_000_000 USD,                              *)
(* which makes (tokens / 1_000_000) * price the integer tokens * p.        *)
(* Sums are taken in the order the program takes them.                     *)
(***************************************************************************)
EXTENDS Integers, Sequences, FiniteSets, TLC

VARIABLES
    pricing,            \* the module-level PRICING object
    sessions,           \* CostTracker.sessions
    totalCost,          \* CostTracker.totalCost
    totalTokens,        \* CostTracker.totalTokens
    conversationCount,  \* CostTracker.conversationCount
    calls,              \* the trackConversation invocations (their promises)
    now,                \* the clock Date.now() reads
    projection,         \* the last calculateProjectedCosts call: arguments and outcome
    output,             \* what the last read of the tracker produced
    exchange,           \* api.js: the last request and the response to it
    testRun,            \* run-tests.js: the run of the test runner, once started
    weather,            \* the last getWeather call and how it settled
    openai,             \* API server: whether the OpenAI client was created at load
    conversationMap,    \* API server: the conversations Map
    chats,              \* API server: the POST /api/chat requests being served
    rateLimitMap,       \* the module-level Map every rateLimit middleware uses
    served              \* the requests the rateLimit middlewares have answered

vars == <<pricing, sessions, totalCost, totalTokens, conversationCount, calls, now, projection, output,
          exchange, testRun, weather, openai, conversationMap, chats,
          rateLimitMap, served>>

tracker == <<sessions, totalCost, totalTokens, conversationCount>>

\* The cost demo: what token-cost-demo.js keeps.
demo == <<pricing, tracker, calls, projection, output>>

\* The API server (part_004).
gateway == <<openai, conversationMap, chats>>

\* The servers and tools beside it, none of which the cost demo touches.
\* The rate limiter (part_012).
limiter == <<rateLimitMap, served>>

services == <<exchange, testRun, weather, gateway, limiter>>

(***************************************************************************)
(* Bounds of the model.                                                    *)
(***************************************************************************)
MaxCalls == 2
MaxSessions == 2
MaxClock == 1
MaxDescLen == 1
MaxChats == 2
MaxHistory == 3
MaxTime == 3
MaxServed == 4

CallIds == 1..MaxCalls
Clock == 0..MaxClock

(***************************************************************************)
(* PRICING (USD per million tokens, times 20).                             *)
(***************************************************************************)
\* Variant: the prices of gpt-4o-mini exchanged.
PRICING_swapped ==
    [m \in {"gpt-4o-mini", "gpt-4o", "gpt-3.5-turbo"} |->
        CASE m = "gpt-4o-mini"   -> [input |-> 12,  output |-> 3]
          [] m = "gpt-4o"        -> [input |-> 50,  output |-> 200]
          [] m = "gpt-3.5-turbo" -> [input |-> 10,  output |-> 30]]

PRICING ==
    [m \in {"gpt-4o-mini", "gpt-4o", "gpt-3.5-turbo"} |->
        CASE m = "gpt-4o-mini"   -> [input |-> 3,   output |-> 12]
          [] m = "gpt-4o"        -> [input |-> 50,  output |-> 200]
          [] m = "gpt-3.5-turbo" -> [input |-> 10,  output |-> 30]]

\* n cents (n / 100 USD) in cost units.
Cents(n) == n * 200000

(***************************************************************************)
(* Inputs.                                                                 *)
(***************************************************************************)
UnknownModel == "invalid-model"
Models == {"gpt-4o-mini", "gpt-4o", "gpt-3.5-turbo", UnknownModel}

Usage(p, c, t) == [prompt_tokens |-> p, completion_tokens |-> c, total_tokens |-> t]

\* response.usage: <<u>> when the response carries a usage record, <<>> when
\* response.usage is undefined.
ZeroUsage == <<Usage(0, 0, 0)>>
SmallUsage == <<Usage(50, 30, 80)>>
LargeUsage == <<Usage(1000000, 500000, 1500000)>>
NoUsage == <<>>
PromptOnlyUsage == <<Usage(1, 0, 1)>>
CompletionOnlyUsage == <<Usage(0, 1, 1)>>
Usages == {ZeroUsage, SmallUsage, LargeUsage, NoUsage}
\* The usage of a conversation of avgTokens tokens, 40% of them prompt tokens.
SplitUsage(avgTokens) == <<Usage((4 * avgTokens) \div 10, (6 * avgTokens) \div 10, avgTokens)>>
\* Usage records an upstream response is not expected to carry.
NegativeUsage == <<Usage(-1, 0, -1)>>
InconsistentUsage == <<Usage(50, 30, 100)>>

\* response.choices[0].message.content: a text or null.
TextContent == "text"
NullContent == "null"
Contents == {TextContent, NullContent}

\* Descriptions are strings, modelled as sequences of characters.
DescChars == {"a", ",", "\"", "\n"}
RECURSIVE StringsUpTo(_)
StringsUpTo(n) ==
    IF n = 0 THEN {<<>>}
    ELSE LET shorter == StringsUpTo(n - 1)
         IN  shorter \cup {Append(s, ch) : s \in shorter, ch \in DescChars}
Descriptions == StringsUpTo(MaxDescLen)

(***************************************************************************)
(* The state after module load and `new CostTracker()`.                    *)
(***************************************************************************)
IdleCall == [state |-> "idle", model |-> "", description |-> <<>>, startTime |-> 0, error |-> ""]
NoProjection == <<>>
NoOutput == <<>>
NoExchange == <<>>
NotStarted == <<>>
NoWeather == <<>>
NoConversations == <<>>
IdleChat == [state |-> "idle", conversationId |-> "", message |-> "", attached |-> FALSE,
             status |-> 0]
ChatIds == 1..MaxChats

\* client: whether OPENAI_API_KEY was set when the API server was loaded.
Loaded(client) ==
    /\ pricing = PRICING
    /\ sessions = <<>>
    /\ totalCost = 0
    /\ totalTokens = 0
    /\ conversationCount = 0
    /\ calls = [c \in CallIds |-> IdleCall]
    /\ now = 0
    /\ projection = NoProjection
    /\ output = NoOutput
    /\ exchange = NoExchange
    /\ testRun = NotStarted
    /\ weather = NoWeather
    /\ openai = client
    /\ conversationMap = NoConversations
    /\ chats = [r \in ChatIds |-> IdleChat]
    /\ rateLimitMap = <<>>
    /\ served = <<>>

Init == Loaded(TRUE)

InitServer == \E client \in BOOLEAN : Loaded(client)

(***************************************************************************)
(* PRICING[model]: <<entry>>, or <<>> for the undefined a missing key      *)
(* yields.                                                                 *)
(***************************************************************************)
\* Variant: a missing key falls back to the gpt-4o-mini entry.
PriceOfOrDefault(model) ==
    IF model \in DOMAIN pricing THEN <<pricing[model]>> ELSE <<pricing["gpt-4o-mini"]>>

PriceOf(model) ==
    IF model \in DOMAIN pricing THEN <<pricing[model]>> ELSE <<>>

\* (tokens / 1_000_000) * price, in cost units.
\* Variant: prompt tokens priced at the output price.
InputCostWrongPrice(usage, entry) == usage.prompt_tokens * entry.output

InputCost(usage, entry) == usage.prompt_tokens * entry.input

\* Variant: the completion tokens priced at the input rate.
OutputCostWrongPrice(usage, entry) == usage.completion_tokens * entry.input

OutputCost(usage, entry) == usage.completion_tokens * entry.output

\* The costs object of a session, line 67: the total is stored under `total`.
Costs(usage, entry) ==
    [inputCost |-> InputCost(usage, entry),
     outputCost |-> OutputCost(usage, entry),
     total |-> InputCost(usage, entry) + OutputCost(usage, entry)]

\* id: this.conversationCount + 1
\* Variant: the + 1 left out.
SessionIdNoIncrement == conversationCount

SessionId == conversationCount + 1

\* The session object of lines 62-71.
Session(c, usage, entry, content, t) ==
    [id |-> SessionId,
     model |-> calls[c].model,
     description |-> calls[c].description,
     usage |-> usage,
     costs |-> Costs(usage, entry),
     responseTime |-> t - calls[c].startTime,
     timestamp |-> t,
     response |-> content]

\* this.conversationCount++
\* Variant: the increment left out.
CountAfterMissed == conversationCount

CountAfter == conversationCount + 1

\* this.totalCost += conversationCost
\* Variant: the output cost left out of the running total.
TotalCostAfterInputOnly(session) == totalCost + session.costs.inputCost

TotalCostAfter(session) == totalCost + session.costs.total

\* this.totalTokens += usage.total_tokens
\* Variant: prompt_tokens added in place of total_tokens.
TotalTokensAfterPromptOnly(session) == totalTokens + session.usage.prompt_tokens

TotalTokensAfter(session) == totalTokens + session.usage.total_tokens

\* What a rejected call throws: the error of the completion request, or the
\* TypeError of reading a property of undefined or null.
ApiFailure == "APIError"
ReadPromptTokensOfUndefined == "TypeError: Cannot read properties of undefined (reading 'prompt_tokens')"
ReadInputOfUndefined == "TypeError: Cannot read properties of undefined (reading 'input')"
ReadSubstringOfNull == "TypeError: Cannot read properties of null (reading 'substring')"

\* The calls suspended on their completion request.
Pending == {c \in CallIds : calls[c].state = "pending"}

\* A settled promise keeps its outcome only.
Settled(state, error) ==
    [state |-> state, model |-> "", description |-> <<>>, startTime |-> 0, error |-> error]

(***************************************************************************)
(* trackConversation, lines 40-50: the call up to its await.               *)
(***************************************************************************)
TrackConversation(c, model, description, t) ==
    /\ calls[c].state # "pending"
    /\ Len(sessions) + Cardinality(Pending) < MaxSessions
    /\ t >= now
    /\ now' = t
    /\ calls' = [calls EXCEPT ![c] =
            [state |-> "pending", model |-> model, description |-> description,
             startTime |-> t, error |-> ""]]
    /\ output' = NoOutput
    /\ UNCHANGED <<pricing, tracker, projection>>
    /\ UNCHANGED services

(***************************************************************************)
(* trackConversation, lines 52-86: the request resolves and the rest of    *)
(* the body runs to its return or to the catch block, with no await in     *)
(* between.                                                                *)
(***************************************************************************)
Respond(c, usage, content, t) ==
    /\ calls[c].state = "pending"
    /\ t >= now
    /\ now' = t
    /\ output' = NoOutput
    /\ UNCHANGED <<pricing, projection>>
    /\ UNCHANGED services
    /\ IF usage = NoUsage
       THEN \* line 57: usage.prompt_tokens with usage undefined
            /\ calls' = [calls EXCEPT ![c] = Settled("rejected", ReadPromptTokensOfUndefined)]
            /\ UNCHANGED tracker
       ELSE IF PriceOf(calls[c].model) = <<>>
       THEN \* line 57: PRICING[model].input with PRICING[model] undefined
            /\ calls' = [calls EXCEPT ![c] = Settled("rejected", ReadInputOfUndefined)]
            /\ UNCHANGED tracker
       ELSE LET session == Session(c, usage[1], PriceOf(calls[c].model)[1], content, t)
            IN  /\ sessions' = Append(sessions, session)
                /\ totalCost' = TotalCostAfter(session)
                /\ totalTokens' = TotalTokensAfter(session)
                /\ conversationCount' = CountAfter
                /\ calls' = [calls EXCEPT ![c] =
                        IF content = NullContent
                        THEN \* displayConversationResults: session.response.substring
                             Settled("rejected", ReadSubstringOfNull)
                        ELSE Settled("resolved", "")]

(***************************************************************************)
(* trackConversation, lines 83-86: the request rejects; the catch block    *)
(* logs and rethrows.                                                      *)
(***************************************************************************)
\* Variant: the failed attempt counted as a conversation.
ApiErrorCounted(c, t) ==
    /\ calls[c].state = "pending"
    /\ t >= now
    /\ now' = t
    /\ calls' = [calls EXCEPT ![c] = Settled("rejected", ApiFailure)]
    /\ output' = NoOutput
    /\ conversationCount' = conversationCount + 1
    /\ UNCHANGED <<pricing, sessions, totalCost, totalTokens, projection>>
    /\ UNCHANGED services

ApiError(c, t) ==
    /\ calls[c].state = "pending"
    /\ t >= now
    /\ now' = t
    /\ calls' = [calls EXCEPT ![c] = Settled("rejected", ApiFailure)]
    /\ output' = NoOutput
    /\ UNCHANGED <<pricing, tracker, projection>>
    /\ UNCHANGED services

(***************************************************************************)
(* generateReport, lines 119-128: the byModel object, as its keys in       *)
(* insertion order and the stats under each key.                           *)
(***************************************************************************)
NoGroups == [keys |-> <<>>, stats |-> <<>>]
\* Variant: a new group that already counts one conversation.
NewGroupCounted == [count |-> 1, totalCost |-> 0, totalTokens |-> 0]

NewGroup == [count |-> 0, totalCost |-> 0, totalTokens |-> 0]

\* The key a session is grouped under.
\* Variant: every session under one key.
GroupKeyConstant(session) == "all"

GroupKey(session) == session.model

\* One iteration of the forEach of lines 121-128.
\* Variant: a new group listed before the groups made earlier.
GroupStepNewestFirst(byModel, session) ==
    LET m == GroupKey(session)
        made == IF m \in DOMAIN byModel.stats
                THEN byModel
                ELSE [keys |-> <<m>> \o byModel.keys,
                      stats |-> byModel.stats @@ (m :> NewGroup)]
    IN  [keys |-> made.keys,
         stats |-> [made.stats EXCEPT ![m] =
                      [count |-> @.count + 1,
                       totalCost |-> @.totalCost + session.costs.total,
                       totalTokens |-> @.totalTokens + session.usage.total_tokens]]]

GroupStep(byModel, session) ==
    LET m == GroupKey(session)
        made == IF m \in DOMAIN byModel.stats
                THEN byModel
                ELSE [keys |-> Append(byModel.keys, m),
                      stats |-> byModel.stats @@ (m :> NewGroup)]
    IN  [keys |-> made.keys,
         stats |-> [made.stats EXCEPT ![m] =
                      [count |-> @.count + 1,
                       totalCost |-> @.totalCost + session.costs.total,
                       totalTokens |-> @.totalTokens + session.usage.total_tokens]]]

RECURSIVE GroupFrom(_, _, _)
GroupFrom(byModel, log, k) ==
    IF k > Len(log) THEN byModel
    ELSE GroupFrom(GroupStep(byModel, log[k]), log, k + 1)

\* Variant: the groups kept from one report to the next instead of being
\* rebuilt from an empty object.
ByModelKept ==
    GroupFrom(IF output # NoOutput /\ output[1] = "generateReport"
              THEN output[2].byModel ELSE NoGroups, sessions, 1)

ByModel == GroupFrom(NoGroups, sessions, 1)

(***************************************************************************)
(* Strings are sequences of chunks: a chunk is one character, or a run of  *)
(* characters none of which is a comma, a double quote or a line break.    *)
(***************************************************************************)
Digits == <<"0", "1", "2", "3", "4", "5", "6", "7", "8", "9">>

\* `${n}` for a number n.
RECURSIVE NumToStr(_)
NumToStr(n) ==
    IF n < 0 THEN <<"-">> \o NumToStr(0 - n)
    ELSE IF n < 10 THEN <<Digits[n + 1]>>
    ELSE NumToStr(n \div 10) \o <<Digits[(n % 10) + 1]>>

\* new Date().toISOString() of clock reading t.
IsoString(t) == <<"1970-01-01T00:00:00.">> \o NumToStr(t) \o <<"Z">>

(***************************************************************************)
(* exportToCSV, lines 146-153.                                             *)
(***************************************************************************)
csvHeader ==
    <<"ID", ",", "Model", ",", "Description", ",", "InputTokens", ",", "OutputTokens", ",",
      "TotalTokens", ",", "InputCost", ",", "OutputCost", ",", "TotalCost", ",",
      "ResponseTime", ",", "Timestamp", "\n">>

\* Variant: the two token columns exchanged.
CsvRowTokensExchanged(session) ==
    NumToStr(session.id) \o <<",", session.model, ",", "\"">> \o session.description
        \o <<"\"", ",">> \o NumToStr(session.usage.completion_tokens)
        \o <<",">> \o NumToStr(session.usage.prompt_tokens)
        \o <<",">> \o NumToStr(session.usage.total_tokens)
        \o <<",">> \o NumToStr(session.costs.inputCost)
        \o <<",">> \o NumToStr(session.costs.outputCost)
        \o <<",">> \o NumToStr(session.costs.total)
        \o <<",">> \o NumToStr(session.responseTime)
        \o <<",">> \o IsoString(session.timestamp)

CsvRow(session) ==
    NumToStr(session.id) \o <<",", session.model, ",", "\"">> \o session.description
        \o <<"\"", ",">> \o NumToStr(session.usage.prompt_tokens)
        \o <<",">> \o NumToStr(session.usage.completion_tokens)
        \o <<",">> \o NumToStr(session.usage.total_tokens)
        \o <<",">> \o NumToStr(session.costs.inputCost)
        \o <<",">> \o NumToStr(session.costs.outputCost)
        \o <<",">> \o NumToStr(session.costs.total)
        \o <<",">> \o NumToStr(session.responseTime)
        \o <<",">> \o IsoString(session.timestamp)

\* this.sessions.map(...).join('\n')
\* Variant: a line break after every row, the last one too.
RECURSIVE JoinRowsTerminated(_, _)
JoinRowsTerminated(log, k) ==
    IF k = 0 THEN <<>>
    ELSE JoinRowsTerminated(log, k - 1) \o CsvRow(log[k]) \o <<"\n">>

RECURSIVE JoinRows(_, _)
JoinRows(log, k) ==
    IF k = 0 THEN <<>>
    ELSE IF k = 1 THEN CsvRow(log[1])
    ELSE JoinRows(log, k - 1) \o <<"\n">> \o CsvRow(log[k])

ExportToCSV == csvHeader \o JoinRows(sessions, Len(sessions))

(***************************************************************************)
(* calculateProjectedCosts, lines 257-277.  The ratios 0.4 and 0.6 are     *)
(* kept exact by counting tokens in tenths, so the costs of a projection   *)
(* are in tenths of a cost unit; costPerConversation is the fraction       *)
(* num / den, with den = 0 where the program divides by zero.              *)
(***************************************************************************)
inputRatioTenths == 4
outputRatioTenths == 6

\* Variant: the two ratios exchanged.
ProjectedCostsRatiosExchanged(avgTokens, conversations, model) ==
    LET entry == PriceOf(model)[1]
        inputCost == avgTokens * outputRatioTenths * conversations * entry.input
        outputCost == avgTokens * inputRatioTenths * conversations * entry.output
    IN  [model |-> model,
         conversations |-> conversations,
         totalTokens |-> avgTokens * conversations,
         inputCost |-> inputCost,
         outputCost |-> outputCost,
         totalCost |-> inputCost + outputCost,
         costPerConversation |-> [num |-> inputCost + outputCost, den |-> conversations]]

ProjectedCosts(avgTokens, conversations, model) ==
    LET entry == PriceOf(model)[1]
        inputTokens == avgTokens * inputRatioTenths * conversations
        outputTokens == avgTokens * outputRatioTenths * conversations
        inputCost == inputTokens * entry.input
        outputCost == outputTokens * entry.output
    IN  [model |-> model,
         conversations |-> conversations,
         totalTokens |-> avgTokens * conversations,
         inputCost |-> inputCost,
         outputCost |-> outputCost,
         totalCost |-> inputCost + outputCost,
         costPerConversation |-> [num |-> inputCost + outputCost, den |-> conversations]]

\* A call of calculateProjectedCosts: it returns, or throws at line 265 where
\* pricing is undefined.  The function declares three parameters; more is
\* whatever the caller passes after them, which the body never reads.
CalculateProjectedCosts(avgTokens, conversations, model, more) ==
    /\ projection' =
          IF PriceOf(model) = <<>>
          THEN <<[args |-> <<avgTokens, conversations, model>> \o more,
                  threw |-> ReadInputOfUndefined]>>
          ELSE <<[args |-> <<avgTokens, conversations, model>> \o more,
                  returned |-> ProjectedCosts(avgTokens, conversations, model)]>>
    /\ UNCHANGED <<pricing, tracker, calls, now, output>>
    /\ UNCHANGED services

(***************************************************************************)
(* The reads of the tracker.  A formatted number is the string of its      *)
(* digits counted in units of its last decimal place: toFixed(4) of a cost *)
(* counts ten-thousandths of a dollar, 2000 cost units each.               *)
(***************************************************************************)
\* (num / den) rounded to the nearest multiple of unit, as toFixed and
\* Math.round print it; a division by zero prints as NaN or Infinity.
ToFixed(num, den, unit) ==
    IF den = 0
    THEN IF num = 0 THEN <<"NaN">> ELSE <<"Infinity">>
    ELSE NumToStr((2 * num + den * unit) \div (2 * den * unit))

\* displayRunningTotals, lines 106-113: the five lines it prints.
RunningTotals ==
    [conversations |-> NumToStr(conversationCount),
     tokens |-> NumToStr(totalTokens),
     cost |-> ToFixed(totalCost, 1, 2000),
     averageCost |-> ToFixed(totalCost, conversationCount, 20),
     averageTokens |-> ToFixed(totalTokens, conversationCount, 1)]

\* generateReport, lines 130-136: what it prints of one group.
GroupLines(model, stats) ==
    [model |-> model,
     conversations |-> NumToStr(stats.count),
     cost |-> ToFixed(stats.totalCost, 1, 2000),
     averageCost |-> ToFixed(stats.totalCost, stats.count, 20),
     tokens |-> NumToStr(stats.totalTokens)]

\* generateReport, lines 115-144: the groups in the order Object.entries
\* lists them, then the three scaling projections in cents.
Report ==
    LET byModel == ByModel
    IN  [groups |-> [i \in 1..Len(byModel.keys) |->
                        GroupLines(byModel.keys[i], byModel.stats[byModel.keys[i]])],
         byModel |-> byModel,
         scaling |-> <<ToFixed(totalCost, conversationCount, 200),
                       ToFixed(totalCost, conversationCount, 20),
                       ToFixed(totalCost, conversationCount, 2)>>]

\* Variant: a read that empties the log it has read.
ReadAndFlush(op, value) ==
    /\ output' = <<op, value>>
    /\ sessions' = <<>>
    /\ UNCHANGED <<pricing, totalCost, totalTokens, conversationCount, calls, now, projection>>
    /\ UNCHANGED services

Read(op, value) ==
    /\ output' = <<op, value>>
    /\ UNCHANGED <<pricing, tracker, calls, now, projection>>
    /\ UNCHANGED services

CallExportToCSV == Read("exportToCSV", ExportToCSV)
GenerateReport == Read("generateReport", Report)
DisplayRunningTotals == Read("displayRunningTotals", RunningTotals)

ReadOps == {"exportToCSV", "generateReport", "displayRunningTotals"}

(***************************************************************************)
(* The caller of a resolved trackConversation holds the response object    *)
(* line 81 returned.  Its usage property is the object line 52 read and    *)
(* line 66 stored in the session, so an assignment the caller makes to     *)
(* response.usage is an assignment to the k-th session's usage.            *)
(***************************************************************************)
AssignReturnedUsage(k, usage) ==
    /\ k \in 1..Len(sessions)
    /\ sessions[k].response # NullContent
    /\ sessions' = [sessions EXCEPT ![k].usage = usage]
    /\ UNCHANGED <<pricing, totalCost, totalTokens, conversationCount, calls, now,
                   projection, output>>
    /\ UNCHANGED services

(***************************************************************************)
(* The steps of the tracker over given sets of inputs.                     *)
(***************************************************************************)
TrackerNext(C, M, D, U, R, T) ==
    \E c \in C, t \in T :
        \/ \E model \in M, description \in D : TrackConversation(c, model, description, t)
        \/ \E usage \in U, content \in R : Respond(c, usage, content, t)
        \/ ApiError(c, t)

\* Accounting: every model, usage and content, calls in flight together, one
\* clock reading.
Next == TrackerNext(CallIds, Models, {<<>>}, Usages, Contents, {0})

Spec == Init /\ [][Next]_vars

\* Concurrency: calls in flight together under an advancing clock.
NextConcurrent ==
    TrackerNext(CallIds, {"gpt-4o-mini", "gpt-4o"}, {<<>>}, {SmallUsage}, {TextContent}, Clock)

SpecConcurrent == Init /\ [][NextConcurrent]_vars

\* Pricing: the tracker and the projection calculator side by side.
NextPricing ==
    \/ TrackerNext(CallIds, Models, {<<>>}, {SmallUsage}, {TextContent}, {0})
    \/ \E avgTokens \in {100, 150}, conversations \in {1, 1000}, model \in Models :
          CalculateProjectedCosts(avgTokens, conversations, model, <<>>)

SpecPricing == Init /\ [][NextPricing]_vars

\* Report: one caller, every priced model, usages with one or both counts zero.
NextReport ==
    TrackerNext({1}, DOMAIN PRICING, {<<>>},
                {ZeroUsage, PromptOnlyUsage, CompletionOnlyUsage, SmallUsage}, {TextContent}, {0})

SpecReport == Init /\ [][NextReport]_vars

\* CSV export: one caller, every description, an advancing clock.
NextCsv ==
    TrackerNext({1}, {"gpt-4o-mini"}, Descriptions, {SmallUsage}, {TextContent}, Clock)

SpecCsv == Init /\ [][NextCsv]_vars

\* Reads: one caller recording sessions, and the three reads of the tracker.
NextRead ==
    \/ TrackerNext({1}, DOMAIN PRICING, {<<>>}, {ZeroUsage, SmallUsage}, {TextContent}, {0})
    \/ CallExportToCSV
    \/ GenerateReport
    \/ DisplayRunningTotals

SpecRead == Init /\ [][NextRead]_vars

\* Returned values: one caller recording sessions and assigning to the usage
\* of the responses it was returned.
NextReturned ==
    \/ TrackerNext({1}, DOMAIN PRICING, {<<>>}, {SmallUsage}, {TextContent}, {0})
    \/ \E k \in 1..MaxSessions, usage \in {ZeroUsage, LargeUsage} :
          AssignReturnedUsage(k, usage[1])

SpecReturned == Init /\ [][NextReturned]_vars

\* Projection: calculateProjectedCosts alone, called with three arguments or
\* with a fourth.
NextProjection ==
    \E avgTokens \in {100, 150, 200}, conversations \in {1, 10, 1000}, model \in Models,
       more \in {<<>>, <<0>>, <<5>>, <<10>>} :
        CalculateProjectedCosts(avgTokens, conversations, model, more)

SpecProjection == Init /\ [][NextProjection]_vars

\* Projection against recording: one caller recording conversations of 100 or
\* 150 tokens split 40/60, and projections of as many conversations.
NextProjectionTracker ==
    \/ TrackerNext({1}, DOMAIN PRICING, {<<>>}, {SplitUsage(100), SplitUsage(150)},
                   {TextContent}, {0})
    \/ \E avgTokens \in {100, 150}, conversations \in 1..MaxSessions, model \in DOMAIN PRICING :
          CalculateProjectedCosts(avgTokens, conversations, model, <<>>)

SpecProjectionTracker == Init /\ [][NextProjectionTracker]_vars

\* Usage records: one caller, well-formed and malformed usage.
NextUsage ==
    TrackerNext({1}, DOMAIN PRICING, {<<>>}, {SmallUsage, NegativeUsage, InconsistentUsage},
                {TextContent}, {0})

SpecUsage == Init /\ [][NextUsage]_vars

(***************************************************************************)
(* api.js: the Express application with GET /hello and GET /secure-hello.  *)
(* A request is its method, its path and req.headers.authorization: <<>>   *)
(* when the header is absent, <<value>> when it is present.                *)
(***************************************************************************)
Methods == {"GET", "POST", "DELETE"}
Paths == {"/hello", "/secure-hello", "/secure", "/"}
ValidToken == "Bearer valid-token"
Authorizations ==
    {<<>>, <<"">>, <<ValidToken>>, <<"Bearer invalid-token">>, <<"valid-token">>,
     <<"bearer valid-token">>, <<"Bearer  valid-token">>, <<"Bearer">>, <<"Basic dXNlcjpwYXNz">>}

Json(status, key, text) == [status |-> status, key |-> key, text |-> text]

\* validateToken: <<response>> when it answers itself, <<>> when it calls next().
\* Variant: any value that starts with Bearer and a token is let through.
ValidateTokenAnyBearer(authorization) ==
    IF authorization = <<>> \/ authorization[1] = ""
    THEN <<Json(401, "error", "No token provided")>>
    ELSE IF authorization[1] \notin {ValidToken, "Bearer invalid-token"}
    THEN <<Json(403, "error", "Invalid token")>>
    ELSE <<>>

ValidateToken(authorization) ==
    IF authorization = <<>> \/ authorization[1] = ""
    THEN \* !token: undefined and the empty string are both falsy
         <<Json(401, "error", "No token provided")>>
    ELSE IF authorization[1] # ValidToken
    THEN <<Json(403, "error", "Invalid token")>>
    ELSE <<>>

\* The route table: app.get('/hello'), app.get('/secure-hello', validateToken,
\* handler), and the 404 answer to everything else.
Route(method, path, authorization) ==
    IF method = "GET" /\ path = "/hello"
    THEN Json(200, "message", "Hello World")
    ELSE IF method = "GET" /\ path = "/secure-hello"
    THEN IF ValidateToken(authorization) # <<>>
         THEN ValidateToken(authorization)[1]
         ELSE Json(200, "message", "Hello World (Secure)")
    ELSE Json(404, "error", "Endpoint not found")

\* One request served.
Request(method, path, authorization) ==
    /\ exchange' = <<[method |-> method, path |-> path, authorization |-> authorization,
                      response |-> Route(method, path, authorization)]>>
    /\ UNCHANGED <<demo, now, testRun, weather, gateway, limiter>>

NextApi ==
    \E method \in Methods, path \in Paths, authorization \in Authorizations :
        Request(method, path, authorization)

SpecApi == Init /\ [][NextApi]_vars

(***************************************************************************)
(* tests/run-tests.js and TestRunner: the runner reads its flags from the  *)
(* command line, hands them to runTests of a test file, and TestRunner.run *)
(* goes through the registered tests in order.  The tests are those of     *)
(* weather-function.test.js: seven unit tests and, last, the integration   *)
(* test that calls the OpenAI API and is registered with                   *)
(* skipIf: () => config.unitOnly || !TestEnv.hasApiKey().                  *)
(***************************************************************************)
UnitTest(name) == [name |-> name, integration |-> FALSE, skipIf |-> FALSE]
IntegrationTest(name) == [name |-> name, integration |-> TRUE, skipIf |-> TRUE]

Tests ==
    <<UnitTest("Function schema validation - structure"),
      UnitTest("Function schema validation - city parameter"),
      UnitTest("Weather API - mock data without API key"),
      UnitTest("Weather API - input validation"),
      UnitTest("Weather API - different cities"),
      UnitTest("Weather query processing - without OpenAI"),
      UnitTest("Weather query processing - response formatting"),
      IntegrationTest("OpenAI function calling - weather query")>>

\* node tests/run-tests.js with or without --unit-only and --integration-only,
\* with or without OPENAI_API_KEY in the environment.
StartTests(unitOnly, integrationOnly, hasApiKey) ==
    /\ testRun = NotStarted
    /\ testRun' = <<[unitOnly |-> unitOnly, integrationOnly |-> integrationOnly,
                     hasApiKey |-> hasApiKey, next |-> 1, executed |-> <<>>,
                     results |-> [passed |-> 0, failed |-> 0, skipped |-> 0]]>>
    /\ UNCHANGED <<demo, now, exchange, weather, gateway, limiter>>

\* options.skipIf && options.skipIf()
\* Variant: the integration test is skipped only for want of an API key.
SkippedWithoutKeyOnly(test, run) == test.skipIf /\ ~run.hasApiKey

Skipped(test, run) == test.skipIf /\ (run.unitOnly \/ ~run.hasApiKey)

\* One iteration of the for loop of TestRunner.run; ok is whether testFn
\* returns or throws.
RunTest(ok) ==
    /\ testRun # NotStarted
    /\ testRun[1].next <= Len(Tests)
    /\ LET run == testRun[1]
           test == Tests[run.next]
       IN  testRun' =
             <<IF Skipped(test, run)
               THEN [run EXCEPT !.next = @ + 1, !.results.skipped = @ + 1]
               ELSE IF ok
               THEN [run EXCEPT !.next = @ + 1, !.executed = Append(@, test.name),
                                !.results.passed = @ + 1]
               ELSE [run EXCEPT !.next = @ + 1, !.executed = Append(@, test.name),
                                !.results.failed = @ + 1]>>
    /\ UNCHANGED <<demo, now, exchange, weather, gateway, limiter>>

NextTests ==
    \/ \E unitOnly \in BOOLEAN, integrationOnly \in BOOLEAN, hasApiKey \in BOOLEAN :
          StartTests(unitOnly, integrationOnly, hasApiKey)
    \/ \E ok \in BOOLEAN : RunTest(ok)

SpecTests == Init /\ [][NextTests]_vars

(***************************************************************************)
(* getWeather, in the weather function demo (part_010, lines 126-145) and  *)
(* in the API server (part_004, lines 37-64).  A call is made for a city,  *)
(* with or without WEATHER_API_KEY in the environment; upstream is what    *)
(* axios.get does when it is called: it resolves with data naming a        *)
(* location, or it rejects.                                                *)
(***************************************************************************)
Cities == {"London", "New York", "Tokyo", "Sydney", "paris"}
UpstreamFailures == {"ECONNREFUSED", "timeout", "status 401", "status 400"}
Upstreams ==
    {[data |-> TRUE, text |-> "as asked"], [data |-> TRUE, text |-> "Paris"]}
        \cup {[data |-> FALSE, text |-> f] : f \in UpstreamFailures}

MockWeather(city) == [name |-> city, condition |-> "partly cloudy", temp_c |-> 15]
\* response.data of WeatherAPI.com
ApiWeather(city, upstream) ==
    [name |-> IF upstream.text = "as asked" THEN city ELSE upstream.text,
     condition |-> "sunny", temp_c |-> 22]

WeatherCall(impl, city, apiKey, upstream, state, value, error) ==
    <<[impl |-> impl, city |-> city, apiKey |-> apiKey, upstream |-> upstream,
       state |-> state, value |-> value, error |-> error]>>

\* The demo's getWeather: the await of axios.get is not inside a try.
GetWeather(city, apiKey, upstream) ==
    /\ weather' =
          IF ~apiKey
          THEN WeatherCall("weather-function", city, apiKey, upstream,
                           "resolved", <<MockWeather(city)>>, "")
          ELSE IF upstream.data
          THEN WeatherCall("weather-function", city, apiKey, upstream,
                           "resolved", <<ApiWeather(city, upstream)>>, "")
          ELSE WeatherCall("weather-function", city, apiKey, upstream,
                           "rejected", <<>>, upstream.text)
    /\ UNCHANGED <<demo, now, exchange, testRun, gateway, limiter>>

\* The server's getWeather: the catch block returns the mock data.
\* Variant: the catch block rethrows.
ServerGetWeatherRethrows(city, apiKey, upstream) ==
    /\ weather' =
          IF ~apiKey
          THEN WeatherCall("server", city, apiKey, upstream,
                           "resolved", <<MockWeather(city)>>, "")
          ELSE IF upstream.data
          THEN WeatherCall("server", city, apiKey, upstream,
                           "resolved", <<ApiWeather(city, upstream)>>, "")
          ELSE WeatherCall("server", city, apiKey, upstream,
                           "rejected", <<>>, upstream.text)
    /\ UNCHANGED <<demo, now, exchange, testRun, gateway, limiter>>

ServerGetWeather(city, apiKey, upstream) ==
    /\ weather' =
          IF ~apiKey
          THEN WeatherCall("server", city, apiKey, upstream,
                           "resolved", <<MockWeather(city)>>, "")
          ELSE IF upstream.data
          THEN WeatherCall("server", city, apiKey, upstream,
                           "resolved", <<ApiWeather(city, upstream)>>, "")
          ELSE WeatherCall("server", city, apiKey, upstream,
                           "resolved", <<MockWeather(city)>>, "")
    /\ UNCHANGED <<demo, now, exchange, testRun, gateway, limiter>>

NextWeather ==
    \E city \in Cities, apiKey \in BOOLEAN, upstream \in Upstreams :
        \/ GetWeather(city, apiKey, upstream)
        \/ ServerGetWeather(city, apiKey, upstream)

SpecWeather == Init /\ [][NextWeather]_vars

(***************************************************************************)
(* The API server's POST /api/chat and DELETE /api/conversations/:id       *)
(* (part_004, lines 134-182 and 251-256).  The handler of POST /api/chat   *)
(* runs up to its await in one step and from the settlement of the         *)
(* completion call to its response in another.  Between the two it holds   *)
(* the array it took from the conversations Map; `attached` tells whether  *)
(* that array is still the one the Map holds for the id.                   *)
(***************************************************************************)
ConversationIds == {"default", "a"}
ChatMessages == {"", "hi", "more"}

SystemMessage == [role |-> "system", content |-> <<"You are a helpful assistant.">>]
UserMessage(message) == [role |-> "user", content |-> <<message>>]
\* The reply of the completion call to a conversation that ends with message.
Reply(message) == <<"re", message>>
AssistantMessage(reply) == [role |-> "assistant", content |-> reply]

Answered(status) ==
    [state |-> "answered", conversationId |-> "", message |-> "", attached |-> FALSE,
     status |-> status]

\* Lines 136-158: validation, get or create, push of the user message.
PostChat(r, message, conversationId) ==
    /\ chats[r].state # "pending"
    /\ IF message = ""
       THEN /\ chats' = [chats EXCEPT ![r] = Answered(400)]
            /\ UNCHANGED conversationMap
       ELSE IF ~openai
       THEN /\ chats' = [chats EXCEPT ![r] = Answered(500)]
            /\ UNCHANGED conversationMap
       ELSE LET conversation == IF conversationId \in DOMAIN conversationMap
                                THEN conversationMap[conversationId]
                                ELSE <<SystemMessage>>
            IN  /\ Len(conversation) < MaxHistory
                /\ conversationMap' =
                      [id \in DOMAIN conversationMap \cup {conversationId} |->
                          IF id = conversationId
                          THEN Append(conversation, UserMessage(message))
                          ELSE conversationMap[id]]
                /\ chats' = [chats EXCEPT ![r] =
                      [state |-> "pending", conversationId |-> conversationId,
                       message |-> message, attached |-> TRUE, status |-> 0]]
    /\ UNCHANGED <<demo, now, exchange, testRun, weather, openai, limiter>>

\* Lines 166-173: the completion call resolved; the reply is pushed onto the
\* array the handler holds.
ChatCompleted(r) ==
    /\ chats[r].state = "pending"
    /\ conversationMap' =
          IF chats[r].attached
          THEN [conversationMap EXCEPT ![chats[r].conversationId] =
                    Append(@, AssistantMessage(Reply(chats[r].message)))]
          ELSE conversationMap
    /\ chats' = [chats EXCEPT ![r] = Answered(200)]
    /\ UNCHANGED <<demo, now, exchange, testRun, weather, openai, limiter>>

\* Lines 175-181: the completion call rejected.
ChatFailed(r) ==
    /\ chats[r].state = "pending"
    /\ chats' = [chats EXCEPT ![r] = Answered(500)]
    /\ UNCHANGED <<demo, now, exchange, testRun, weather, openai, conversationMap, limiter>>

\* Lines 252-256: the Map forgets the array; handlers in flight keep theirs.
DeleteConversation(id) ==
    /\ conversationMap' = [k \in DOMAIN conversationMap \ {id} |-> conversationMap[k]]
    /\ chats' = [r \in ChatIds |->
                    IF chats[r].state = "pending" /\ chats[r].conversationId = id
                    THEN [chats[r] EXCEPT !.attached = FALSE]
                    ELSE chats[r]]
    /\ UNCHANGED <<demo, now, exchange, testRun, weather, openai, limiter>>

NextServer ==
    \/ \E r \in ChatIds :
          \/ \E message \in ChatMessages, conversationId \in ConversationIds :
                PostChat(r, message, conversationId)
          \/ ChatCompleted(r)
          \/ ChatFailed(r)
    \/ \E id \in ConversationIds : DeleteConversation(id)

SpecServer == InitServer /\ [][NextServer]_vars

(***************************************************************************)
(* rateLimit (part_012, lines 106-145).  rateLimitMap is declared once, at *)
(* module level, so every middleware that rateLimit(maxRequests, windowMs) *)
(* returns reads and writes the same Map.  Times are clock readings; two   *)
(* middlewares are installed, with different limits and windows.           *)
(***************************************************************************)
Limiters ==
    {[name |-> "api", maxRequests |-> 2, windowMs |-> 4],
     [name |-> "login", maxRequests |-> 1, windowMs |-> 1]}
ClientIps == {"10.0.0.1", "10.0.0.2"}
Times == 0..MaxTime

\* times.filter(time => time > windowStart)
After(times, windowStart) == SelectSeq(times, LAMBDA time : time > windowStart)

\* Lines 132-141: the clean-up of every entry of the Map.
CleanedUp(map, windowStart) ==
    [ip \in {i \in DOMAIN map : After(map[i], windowStart) # <<>>} |->
        After(map[ip], windowStart)]

\* One request through the middleware m; cleanup is whether Math.random()
\* came out below 0.1.
RateLimit(m, clientIp, t, cleanup) ==
    /\ Len(served) < MaxServed
    /\ t >= now
    /\ now' = t
    /\ LET windowStart == t - m.windowMs
           known == IF clientIp \in DOMAIN rateLimitMap THEN rateLimitMap[clientIp] ELSE <<>>
           requests == After(known, windowStart)
           withIp == [ip \in DOMAIN rateLimitMap \cup {clientIp} |->
                         IF ip = clientIp THEN known ELSE rateLimitMap[ip]]
       IN  IF Len(requests) >= m.maxRequests
           THEN /\ rateLimitMap' = withIp
                /\ served' = Append(served, [limiter |-> m.name, ip |-> clientIp,
                                             time |-> t, status |-> 429])
           ELSE /\ rateLimitMap' =
                     LET set == [withIp EXCEPT ![clientIp] = Append(requests, t)]
                     IN  IF cleanup THEN CleanedUp(set, windowStart) ELSE set
                /\ served' = Append(served, [limiter |-> m.name, ip |-> clientIp,
                                             time |-> t, status |-> 200])
    /\ UNCHANGED <<demo, exchange, testRun, weather, gateway>>

NextLimiter ==
    \E m \in Limiters, clientIp \in ClientIps, t \in Times, cleanup \in BOOLEAN :
        RateLimit(m, clientIp, t, cleanup)

SpecLimiter == Init /\ [][NextLimiter]_vars

(***************************************************************************)
(* Sums over the session log, taken front to back as the program adds.     *)
(***************************************************************************)
RECURSIVE SumCosts(_, _)
SumCosts(log, k) == IF k = 0 THEN 0 ELSE SumCosts(log, k - 1) + log[k].costs.total

RECURSIVE SumTokens(_, _)
SumTokens(log, k) == IF k = 0 THEN 0 ELSE SumTokens(log, k - 1) + log[k].usage.total_tokens

\* When the call that produced session s started (monotone clock).
StartOf(s) == s.timestamp - s.responseTime

(***************************************************************************)
(* C1  Additivity: totalCost is the sum of the total costs of the sessions *)
(* in the log and totalTokens the sum of their usage total_tokens.         *)
(***************************************************************************)
C1_Additivity ==
    /\ totalCost = SumCosts(sessions, Len(sessions))
    /\ totalTokens = SumTokens(sessions, Len(sessions))

C1_Witness ==
    /\ Len(sessions) >= 2
    /\ sessions[1].model # sessions[2].model
    /\ sessions[1].costs.total > 0
    /\ sessions[2].costs.total > 0
    /\ sessions[1].costs.total # sessions[2].costs.total

(***************************************************************************)
(* C2  conversationCount is the number of sessions in the log, in every    *)
(* reachable state.                                                        *)
(***************************************************************************)
C2_CountIsLength == conversationCount = Len(sessions)

C2_Witness ==
    /\ conversationCount = 2
    /\ \E c \in CallIds : calls[c].state = "rejected"

(***************************************************************************)
(* C3  The k-th session of the log has id k, whatever the models of the    *)
(* calls: no id is skipped or used twice.                                  *)
(***************************************************************************)
C3_IdsSequential == \A k \in 1..Len(sessions) : sessions[k].id = k

C3_Witness ==
    /\ Len(sessions) >= 2
    /\ sessions[1].model = "gpt-4o"
    /\ sessions[2].model = "gpt-3.5-turbo"
    /\ sessions[2].id = 2

C5_AtomicMutation ==
    /\ \A i, j \in 1..Len(sessions) : i < j => sessions[i].id < sessions[j].id
    /\ totalCost = SumCosts(sessions, Len(sessions))
    /\ totalTokens = SumTokens(sessions, Len(sessions))
    /\ conversationCount = Len(sessions)

\* Two logged calls were in flight together: the one logged first started
\* after the other had started, and the other was still pending when it ended.
C5_Witness ==
    /\ Len(sessions) >= 2
    /\ StartOf(sessions[1]) > StartOf(sessions[2])

(***************************************************************************)
(* C6  The recorded cost of every session is                               *)
(* inputCost = prompt_tokens / 1_000_000 * input price,                     *)
(* outputCost = completion_tokens / 1_000_000 * output price and            *)
(* total = inputCost + outputCost; zero tokens cost 0, 0, 0 and 1,000,000   *)
(* prompt plus 500,000 completion tokens of gpt-4o cost 2.50, 5.00, 7.50.   *)
(***************************************************************************)
C6_CostFormula ==
    \A k \in 1..Len(sessions) :
        LET s == sessions[k]
            u == s.usage
        IN  /\ s.costs.inputCost = u.prompt_tokens * PRICING[s.model].input
            /\ s.costs.outputCost = u.completion_tokens * PRICING[s.model].output
            /\ s.costs.total = s.costs.inputCost + s.costs.outputCost
            /\ (u.prompt_tokens = 0 /\ u.completion_tokens = 0)
                  => (s.costs.inputCost = 0 /\ s.costs.outputCost = 0 /\ s.costs.total = 0)
            /\ (s.model = "gpt-4o" /\ <<u>> = LargeUsage)
                  => /\ s.costs.inputCost = Cents(250)
                     /\ s.costs.outputCost = Cents(500)
                     /\ s.costs.total = Cents(750)

C6_Witness ==
    /\ Len(sessions) >= 2
    /\ sessions[1].model = "gpt-4o" /\ <<sessions[1].usage>> = LargeUsage
    /\ <<sessions[2].usage>> = ZeroUsage

(***************************************************************************)
(* C7  Every recorded session has a costs record with the fields           *)
(* inputCost, outputCost and totalCost, all >= 0, and                      *)
(* totalCost = inputCost + outputCost.                                     *)
(***************************************************************************)
C7_CostsRecord ==
    \A k \in 1..Len(sessions) :
        LET costs == sessions[k].costs
        IN  /\ {"inputCost", "outputCost", "totalCost"} \subseteq DOMAIN costs
            /\ costs.inputCost >= 0
            /\ costs.outputCost >= 0
            /\ costs.totalCost >= 0
            /\ costs.totalCost = costs.inputCost + costs.outputCost

(***************************************************************************)
(* C8  The same usage, with a non-zero token count, recorded once under    *)
(* gpt-4o-mini and once under gpt-4o: the per-model report has exactly two *)
(* groups, each of count 1, and the gpt-4o group costs strictly more.      *)
(***************************************************************************)
MixedModels ==
    /\ Len(sessions) = 2
    /\ {sessions[1].model, sessions[2].model} = {"gpt-4o-mini", "gpt-4o"}
    /\ sessions[1].usage = sessions[2].usage
    /\ sessions[1].usage.prompt_tokens > 0 \/ sessions[1].usage.completion_tokens > 0

C8_MixedModelsReport ==
    MixedModels =>
        /\ Len(ByModel.keys) = 2
        /\ DOMAIN ByModel.stats = {"gpt-4o-mini", "gpt-4o"}
        /\ ByModel.stats["gpt-4o-mini"].count = 1
        /\ ByModel.stats["gpt-4o"].count = 1
        /\ ByModel.stats["gpt-4o"].totalCost > ByModel.stats["gpt-4o-mini"].totalCost

C8_Witness ==
    /\ MixedModels
    /\ <<sessions[1].usage>> = PromptOnlyUsage
    /\ sessions[1].model = "gpt-4o"
    /\ ByModel.keys = <<"gpt-4o", "gpt-4o-mini">>

(***************************************************************************)
(* C9  PRICING has the entries gpt-4o-mini, gpt-4o and gpt-3.5-turbo,      *)
(* every entry has input and output prices > 0 with output >= input, and   *)
(* no step of the tracker or of the projection calculator changes it.      *)
(***************************************************************************)
C9_PricingTable ==
    /\ {"gpt-4o-mini", "gpt-4o", "gpt-3.5-turbo"} \subseteq DOMAIN pricing
    /\ Cardinality(DOMAIN pricing) >= 3
    /\ \A m \in DOMAIN pricing :
          /\ pricing[m].input > 0
          /\ pricing[m].output > 0
          /\ pricing[m].output >= pricing[m].input
    /\ pricing = [m \in {"gpt-4o-mini", "gpt-4o", "gpt-3.5-turbo"} |->
                    CASE m = "gpt-4o-mini"   -> [input |-> 3,  output |-> 12]
                      [] m = "gpt-4o"        -> [input |-> 50, output |-> 200]
                      [] m = "gpt-3.5-turbo" -> [input |-> 10, output |-> 30]]

C9_Witness ==
    /\ Len(sessions) >= 1
    /\ projection # NoProjection
    /\ "returned" \in DOMAIN projection[1]
    /\ \E c \in CallIds : calls[c].state = "rejected"

(***************************************************************************)
(* A CSV reader (RFC 4180; the automaton of Python's csv.reader in its     *)
(* default dialect): the rows of a text, each row its fields.              *)
(***************************************************************************)
RECURSIVE ReadCsv(_, _, _, _, _, _)
ReadCsv(text, i, state, field, row, rows) ==
    IF i > Len(text)
    THEN IF state = "START_RECORD" THEN rows ELSE Append(rows, Append(row, field))
    ELSE LET ch == text[i]
             endField == Append(row, field)
         IN  CASE state = "START_RECORD" /\ ch = "\n" ->
                    ReadCsv(text, i + 1, "START_RECORD", <<>>, <<>>, Append(rows, <<>>))
               [] state \in {"START_RECORD", "START_FIELD"} /\ ch = "\"" ->
                    ReadCsv(text, i + 1, "IN_QUOTED_FIELD", <<>>, row, rows)
               [] state \in {"START_RECORD", "START_FIELD"} /\ ch = "," ->
                    ReadCsv(text, i + 1, "START_FIELD", <<>>, Append(row, <<>>), rows)
               [] state = "START_FIELD" /\ ch = "\n" ->
                    ReadCsv(text, i + 1, "START_RECORD", <<>>, <<>>, Append(rows, Append(row, <<>>)))
               [] state \in {"START_RECORD", "START_FIELD"} /\ ch \notin {"\n", "\"", ","} ->
                    ReadCsv(text, i + 1, "IN_FIELD", <<ch>>, row, rows)
               [] state \in {"IN_FIELD", "QUOTE_IN_QUOTED_FIELD"} /\ ch = "," ->
                    ReadCsv(text, i + 1, "START_FIELD", <<>>, endField, rows)
               [] state \in {"IN_FIELD", "QUOTE_IN_QUOTED_FIELD"} /\ ch = "\n" ->
                    ReadCsv(text, i + 1, "START_RECORD", <<>>, <<>>, Append(rows, endField))
               [] state = "IN_FIELD" /\ ch \notin {"\n", ","} ->
                    ReadCsv(text, i + 1, "IN_FIELD", Append(field, ch), row, rows)
               [] state = "IN_QUOTED_FIELD" /\ ch = "\"" ->
                    ReadCsv(text, i + 1, "QUOTE_IN_QUOTED_FIELD", field, row, rows)
               [] state = "IN_QUOTED_FIELD" /\ ch # "\"" ->
                    ReadCsv(text, i + 1, "IN_QUOTED_FIELD", Append(field, ch), row, rows)
               [] state = "QUOTE_IN_QUOTED_FIELD" /\ ch = "\"" ->
                    ReadCsv(text, i + 1, "IN_QUOTED_FIELD", Append(field, ch), row, rows)
               [] state = "QUOTE_IN_QUOTED_FIELD" /\ ch \notin {"\n", "\"", ","} ->
                    ReadCsv(text, i + 1, "IN_FIELD", Append(field, ch), row, rows)

CsvRows(text) == ReadCsv(text, 1, "START_RECORD", <<>>, <<>>, <<>>)

\* The number a field of decimal digits denotes: <<n>>, or <<>> when the
\* field is no such number.
DigitValue(ch) == CHOOSE d \in 0..9 : Digits[d + 1] = ch

RECURSIVE DigitsToNum(_, _)
DigitsToNum(f, k) == IF k = 0 THEN 0 ELSE DigitsToNum(f, k - 1) * 10 + DigitValue(f[k])

StrToNum(f) ==
    IF Len(f) > 0 /\ \A k \in 1..Len(f) : \E d \in 0..9 : Digits[d + 1] = f[k]
    THEN <<DigitsToNum(f, Len(f))>>
    ELSE <<>>

(***************************************************************************)
(* C10  A CSV reader finds in the exportToCSV text one header row and      *)
(* conversationCount data rows, and in each data row the TotalCost column  *)
(* is the sum of the InputCost and OutputCost columns.                     *)
(***************************************************************************)
C10_CsvRoundTrip ==
    LET rows == CsvRows(ExportToCSV)
    IN  /\ Len(rows) = conversationCount + 1
        /\ \A k \in 2..Len(rows) :
              /\ Len(rows[k]) >= 9
              /\ StrToNum(rows[k][7]) # <<>>
              /\ StrToNum(rows[k][8]) # <<>>
              /\ StrToNum(rows[k][9]) = <<StrToNum(rows[k][7])[1] + StrToNum(rows[k][8])[1]>>

\* The round trip does hold of every log whose descriptions hold no double
\* quote (commas and line breaks inside the quoted field are read back).
NoQuoteInDescriptions ==
    \A k \in 1..Len(sessions) :
        \A i \in 1..Len(sessions[k].description) : sessions[k].description[i] # "\""

CsvRoundTripWithoutQuotes == NoQuoteInDescriptions => C10_CsvRoundTrip

(***************************************************************************)
(* C11  The exportToCSV text is the header line followed by one row per    *)
(* session in recording order; a row is the eleven columns id, model,      *)
(* quoted description, prompt tokens, completion tokens, total tokens,     *)
(* input cost, output cost, total cost, response time, timestamp, joined   *)
(* by commas, so the i-th row starts with i,<model>,"<description>".       *)
(***************************************************************************)
ColumnsOf(s) ==
    <<NumToStr(s.id), <<s.model>>, <<"\"">> \o s.description \o <<"\"">>,
      NumToStr(s.usage.prompt_tokens), NumToStr(s.usage.completion_tokens),
      NumToStr(s.usage.total_tokens), NumToStr(s.costs.inputCost),
      NumToStr(s.costs.outputCost), NumToStr(s.costs.total),
      NumToStr(s.responseTime), IsoString(s.timestamp)>>

\* The strings of a sequence, from the k-th on, with sep between them.
RECURSIVE JoinFrom(_, _, _)
JoinFrom(strings, k, sep) ==
    IF k > Len(strings) THEN <<>>
    ELSE IF k = Len(strings) THEN strings[k]
    ELSE strings[k] \o sep \o JoinFrom(strings, k + 1, sep)

HeaderLine ==
    JoinFrom(<< <<"ID">>, <<"Model">>, <<"Description">>, <<"InputTokens">>, <<"OutputTokens">>,
                <<"TotalTokens">>, <<"InputCost">>, <<"OutputCost">>, <<"TotalCost">>,
                <<"ResponseTime">>, <<"Timestamp">> >>, 1, <<",">>)

\* Whether string p is a prefix of string t.
IsPrefix(p, t) == Len(p) <= Len(t) /\ SubSeq(t, 1, Len(p)) = p

C11_CsvLayout ==
    LET lines == [i \in 1..Len(sessions) |-> JoinFrom(ColumnsOf(sessions[i]), 1, <<",">>)]
    IN  /\ ExportToCSV = HeaderLine \o <<"\n">> \o JoinFrom(lines, 1, <<"\n">>)
        /\ \A i \in 1..Len(sessions) :
              /\ Len(ColumnsOf(sessions[i])) = 11
              /\ IsPrefix(NumToStr(i) \o <<",", sessions[i].model, ",", "\"">>
                            \o sessions[i].description \o <<"\"">>, lines[i])

C11_Witness ==
    /\ Len(sessions) = 2
    /\ sessions[1].description = <<",">>
    /\ sessions[2].description = <<"a">>
    /\ sessions[1].timestamp < sessions[2].timestamp
    /\ sessions[2].responseTime > 0

(***************************************************************************)
(* C12  Every description is written between double quotes with every      *)
(* double quote inside it doubled, so that whatever commas, quotes or line *)
(* breaks it holds it is read back as exactly one field: the third of the  *)
(* eleven fields of its row.                                               *)
(***************************************************************************)
RECURSIVE QuotesDoubled(_, _)
QuotesDoubled(d, k) ==
    IF k = 0 THEN <<>>
    ELSE QuotesDoubled(d, k - 1) \o (IF d[k] = "\"" THEN <<"\"", "\"">> ELSE <<d[k]>>)

C12_DescriptionEscaped ==
    LET rows == CsvRows(ExportToCSV)
    IN  /\ Len(rows) = Len(sessions) + 1
        /\ \A k \in 1..Len(sessions) :
              LET d == sessions[k].description
              IN  /\ ColumnsOf(sessions[k])[3] = <<"\"">> \o QuotesDoubled(d, Len(d)) \o <<"\"">>
                  /\ Len(rows[k + 1]) = 11
                  /\ rows[k + 1][3] = d

(***************************************************************************)
(* C13  Line breaks of the exportToCSV text.                               *)
(***************************************************************************)
EndsWithLineBreak(text) == Len(text) > 0 /\ text[Len(text)] = "\n"

HasBlankLine(text) ==
    \/ Len(text) > 0 /\ text[1] = "\n"
    \/ \E i \in 1..(Len(text) - 1) : text[i] = "\n" /\ text[i + 1] = "\n"

\* C13 as claimed: the text never ends with a line break and holds no blank
\* line, whatever the tracker state, the empty tracker included.
C13_NoTrailingBreak ==
    /\ ~EndsWithLineBreak(ExportToCSV)
    /\ ~HasBlankLine(ExportToCSV)

\* C13 as amended: with at least one session recorded the text does not end
\* with a line break and holds no blank line other than one written inside a
\* description; with no session recorded it is the header line and its line
\* break.
BlankLineInADescription ==
    \E k \in 1..Len(sessions) : HasBlankLine(<<"x">> \o sessions[k].description)

C13_LineBreaks ==
    /\ Len(sessions) >= 1 =>
          /\ ~EndsWithLineBreak(ExportToCSV)
          /\ HasBlankLine(ExportToCSV) => BlankLineInADescription
    /\ Len(sessions) = 0 =>
          /\ ExportToCSV = HeaderLine \o <<"\n">>
          /\ EndsWithLineBreak(ExportToCSV)

C13_Witness ==
    /\ Len(sessions) = 2
    /\ sessions[1].description = <<"\n">>
    /\ sessions[2].description = <<"\n">>

(***************************************************************************)
(* C14  A read of the tracker (exportToCSV, generateReport with its        *)
(* per-model grouping, displayRunningTotals) leaves sessions, totalCost,   *)
(* totalTokens and conversationCount as they were, and a read that follows *)
(* the same read with no step of trackConversation in between produces the *)
(* same result.                                                            *)
(***************************************************************************)
C14_ReadsArePure ==
    [][(output' # NoOutput /\ output'[1] \in ReadOps) =>
          /\ tracker' = tracker
          /\ (output # NoOutput /\ output[1] = output'[1]) => output' = output]_vars

C14_Witness ==
    /\ Len(sessions) = 2
    /\ sessions[1].model # sessions[2].model
    /\ output # NoOutput
    /\ output[1] = "generateReport"
    /\ Len(output[2].groups) = 2

(***************************************************************************)
(* C15  No value handed to a caller is a live reference into the tracker:  *)
(* when the caller assigns to the response a recording returned, what the  *)
(* reads report (the CSV text, the report, the running totals) stays as it *)
(* was.                                                                    *)
(***************************************************************************)
C15_NoLiveReference ==
    [][(\E k \in 1..MaxSessions, usage \in {ZeroUsage, LargeUsage} :
            AssignReturnedUsage(k, usage[1]))
        => /\ ExportToCSV' = ExportToCSV
           /\ Report' = Report
           /\ RunningTotals' = RunningTotals]_vars

(***************************************************************************)
(* C16  The per-model report has one group for every model id of the log,  *)
(* holding all the sessions of that model, and lists the groups in the     *)
(* order in which the models first appear in the log.                      *)
(***************************************************************************)
FirstAppearance(model) ==
    CHOOSE k \in 1..Len(sessions) :
        /\ sessions[k].model = model
        /\ \A j \in 1..(k - 1) : sessions[j].model # model

Returned == projection # NoProjection /\ "returned" \in DOMAIN projection[1]

\* The projection of avgTokens tokens over conversations conversations with
\* ratioTenths tenths of the tokens counted as input, costs in tenths of a
\* cost unit.
ProjectionWithRatio(r, avgTokens, conversations, entry, ratioTenths) ==
    /\ r.inputCost = avgTokens * ratioTenths * conversations * entry.input
    /\ r.outputCost = avgTokens * (10 - ratioTenths) * conversations * entry.output
    /\ r.totalCost = r.inputCost + r.outputCost
    /\ r.costPerConversation = [num |-> r.totalCost, den |-> conversations]

\* C17 as claimed: the input ratio is the one the caller supplies as fourth
\* argument, 0.4 when there is none.
C17_CallerSuppliedRatio ==
    Returned =>
        LET args == projection[1].args
        IN  ProjectionWithRatio(projection[1].returned, args[1], args[2], pricing[args[3]],
                                IF Len(args) >= 4 THEN args[4] ELSE 4)

\* C17 as amended: the input ratio is 0.4 whatever the caller passes; input
\* tokens are avgTokens x 0.4 x conversations, output tokens avgTokens x 0.6
\* x conversations, each priced per million, and costPerConversation is
\* totalCost / conversations.
C17_FixedRatio ==
    Returned =>
        LET args == projection[1].args
        IN  ProjectionWithRatio(projection[1].returned, args[1], args[2], pricing[args[3]], 4)

C17_Witness ==
    /\ Returned
    /\ projection[1].args = <<150, 1000, "gpt-4o", 5>>
    /\ projection[1].returned.totalCost > 0

(***************************************************************************)
(* C18  For every model of the table, the totalCost projected for N        *)
(* conversations of T tokens on average equals the totalCost of a fresh    *)
(* tracker after N recorded sessions of 0.4 x T prompt tokens and 0.6 x T  *)
(* completion tokens each (the projection counts in tenths of a cost       *)
(* unit).                                                                  *)
(***************************************************************************)
RecordedOnly(model, avgTokens, n) ==
    /\ Len(sessions) = n
    /\ \A k \in 1..n :
          /\ sessions[k].model = model
          /\ <<sessions[k].usage>> = SplitUsage(avgTokens)

C18_ProjectionAgreesWithTracker ==
    Returned =>
        LET args == projection[1].args
        IN  RecordedOnly(args[3], args[1], args[2])
                => projection[1].returned.totalCost = 10 * totalCost

C18_Witness ==
    /\ Returned
    /\ projection[1].args = <<150, 2, "gpt-4o">>
    /\ RecordedOnly("gpt-4o", 150, 2)
    /\ totalCost > 0

(***************************************************************************)
(* C19  Looking up the price of a model id that is not in the table fails  *)
(* with the unknown-model error, in the projection calculator as in the    *)
(* cost calculation of a recording, and leaves the table and the tracker   *)
(* as they were.                                                           *)
(***************************************************************************)
UnknownModelError == "Error: Unknown model: invalid-model"

C19_UnknownModelError ==
    /\ (projection # NoProjection /\ projection[1].args[3] = UnknownModel) =>
          /\ "threw" \in DOMAIN projection[1]
          /\ projection[1].threw = UnknownModelError
    /\ \A c \in CallIds :
          calls[c].state = "rejected" => calls[c].error \in {ApiFailure, UnknownModelError}
    /\ pricing = PRICING

(***************************************************************************)
(* C20  A recording whose usage has a negative token count, or a total     *)
(* other than prompt plus completion tokens, is rejected and records       *)
(* nothing: no session of the log has such a usage or a negative cost.     *)
(***************************************************************************)
WellFormed(usage) ==
    /\ usage.prompt_tokens >= 0
    /\ usage.completion_tokens >= 0
    /\ usage.total_tokens = usage.prompt_tokens + usage.completion_tokens

C20_MalformedUsageRejected ==
    \A k \in 1..Len(sessions) :
        /\ WellFormed(sessions[k].usage)
        /\ sessions[k].costs.inputCost >= 0
        /\ sessions[k].costs.outputCost >= 0
        /\ sessions[k].costs.total >= 0

(***************************************************************************)
(* C21  When the completion call fails the call is settled as rejected     *)
(* with that failure, not started again, and nothing is recorded for it:   *)
(* sessions, totals and count stay as they were, and the session recorded  *)
(* next gets the next consecutive id.                                      *)
(***************************************************************************)
FailedUpstream(c) ==
    /\ calls[c].state = "pending"
    /\ calls'[c].state # "pending"
    /\ calls'[c].error = ApiFailure

C21_FailureNotRecorded ==
    [][/\ \A c \in CallIds :
            FailedUpstream(c) => (calls'[c].state = "rejected" /\ tracker' = tracker)
       /\ Len(sessions') > Len(sessions) =>
            sessions'[Len(sessions')].id =
                IF Len(sessions) = 0 THEN 1 ELSE sessions[Len(sessions)].id + 1]_vars

C21_Witness ==
    /\ Len(sessions) = 2
    /\ sessions[2].id = 2
    /\ \E c \in CallIds : calls[c].state = "rejected" /\ calls[c].error = ApiFailure

(***************************************************************************)
(* C22  A new CostTracker has an empty session list and totalCost,         *)
(* totalTokens and conversationCount equal to 0, and of the tracker's      *)
(* operations only the recording of a session changes these four fields.   *)
(***************************************************************************)
Recorded ==
    /\ Len(sessions') = Len(sessions) + 1
    /\ \E c \in CallIds : calls[c].state = "pending" /\ calls'[c].state # "pending"

C22_OnlyRecordingMutates ==
    /\ (sessions = <<>> /\ totalCost = 0 /\ totalTokens = 0 /\ conversationCount = 0)
    /\ [][tracker' # tracker => Recorded]_vars

C22_Witness ==
    /\ Len(sessions) = 1
    /\ totalCost > 0
    /\ output # NoOutput
    /\ output[1] = "exportToCSV"
    /\ \E c \in CallIds : calls[c].state = "pending"

(***************************************************************************)
(* C23  The session log is append-only: every step leaves the log a prefix *)
(* of the log after it, and totalCost, totalTokens and conversationCount   *)
(* never decrease.                                                         *)
(***************************************************************************)
C23_AppendOnly ==
    [][/\ IsPrefix(sessions, sessions')
       /\ totalCost' >= totalCost
       /\ totalTokens' >= totalTokens
       /\ conversationCount' >= conversationCount]_vars

\* The part of C23 that is about the log and the count alone.
LogAppendOnly ==
    [][IsPrefix(sessions, sessions') /\ conversationCount' >= conversationCount]_vars

(***************************************************************************)
(* C27  Whenever a trackConversation call rejects, whatever the reason,    *)
(* the tracker is as it was before the call: the step that rejects a call  *)
(* leaves sessions, totals and count unchanged.                            *)
(***************************************************************************)
C27_RejectionLeavesState ==
    [][\A c \in CallIds :
          (calls[c].state = "pending" /\ calls'[c].state = "rejected")
              => tracker' = tracker]_vars

(***************************************************************************)
(* C28  The groups of the per-model report partition the log: over all the *)
(* groups the counts add up to conversationCount, the totalTokens to the   *)
(* tracker's totalTokens and the totalCost to the tracker's totalCost.     *)
(***************************************************************************)
RECURSIVE SumOverGroups(_, _, _)
SumOverGroups(byModel, field, k) ==
    IF k = 0 THEN 0
    ELSE SumOverGroups(byModel, field, k - 1) + byModel.stats[byModel.keys[k]][field]

Asked(path) ==
    /\ exchange # NoExchange
    /\ exchange[1].method = "GET"
    /\ exchange[1].path = path

SecureHello == Json(200, "message", "Hello World (Secure)")

\* C24 as claimed: GET /secure-hello answers 200 Hello World (Secure) only
\* when the Authorization header is exactly Bearer valid-token, 401 No token
\* provided when there is no header and 403 Invalid token for every other
\* header value; GET /hello answers 200 Hello World whatever the header.
C24_AnyOtherValueForbidden ==
    /\ Asked("/secure-hello") =>
          LET a == exchange[1].authorization
              r == exchange[1].response
          IN  /\ r = SecureHello <=> a = <<ValidToken>>
              /\ a = <<>> => r = Json(401, "error", "No token provided")
              /\ (a # <<>> /\ a # <<ValidToken>>) => r = Json(403, "error", "Invalid token")
    /\ Asked("/hello") => exchange[1].response = Json(200, "message", "Hello World")

\* C24 as amended: as claimed, except that a header whose value is the empty
\* string is answered like a missing header, with 401 No token provided.
C24_TokenCheck ==
    /\ Asked("/secure-hello") =>
          LET a == exchange[1].authorization
              r == exchange[1].response
          IN  /\ r = SecureHello <=> a = <<ValidToken>>
              /\ (a = <<>> \/ a = <<"">>) => r = Json(401, "error", "No token provided")
              /\ (a # <<>> /\ a # <<"">> /\ a # <<ValidToken>>)
                    => r = Json(403, "error", "Invalid token")
    /\ Asked("/hello") => exchange[1].response = Json(200, "message", "Hello World")

C24_Witness ==
    /\ Asked("/secure-hello")
    /\ exchange[1].authorization = <<"Bearer invalid-token">>
    /\ exchange[1].response.status = 403

(***************************************************************************)
(* C25  Started with --unit-only the runner executes no test that calls    *)
(* the API, and started with --integration-only it executes no unit test.  *)
(***************************************************************************)
IsIntegration(name) == \E i \in 1..Len(Tests) : Tests[i].name = name /\ Tests[i].integration

UnitOnlyRespected ==
    (testRun # NotStarted /\ testRun[1].unitOnly) =>
        \A i \in 1..Len(testRun[1].executed) : ~IsIntegration(testRun[1].executed[i])

C25_FlagsSelectTests ==
    /\ UnitOnlyRespected
    /\ (testRun # NotStarted /\ testRun[1].integrationOnly) =>
          \A i \in 1..Len(testRun[1].executed) : IsIntegration(testRun[1].executed[i])

(***************************************************************************)
(* C26  getWeather(city) returns the mock data, with the requested city as *)
(* location name, whenever WEATHER_API_KEY is not set and whenever the     *)
(* request to the weather API fails; the failure never reaches the caller. *)
(***************************************************************************)
FallsBack(call) ==
    (~call.apiKey \/ ~call.upstream.data) =>
        /\ call.state = "resolved"
        /\ call.value = <<MockWeather(call.city)>>

C26_MockFallback == weather # NoWeather => FallsBack(weather[1])

\* The same of the server's getWeather alone.
ServerFallsBack ==
    (weather # NoWeather /\ weather[1].impl = "server") => FallsBack(weather[1])

(***************************************************************************)
(* C29  For every conversationId the API server holds, the stored history  *)
(* is the system message followed by strictly alternating user and         *)
(* assistant messages, each assistant message answering the user message   *)
(* just before it; a last user message without its answer belongs to a     *)
(* request still being served.                                             *)
(***************************************************************************)
Alternates(history, id) ==
    /\ Len(history) >= 1
    /\ history[1] = SystemMessage
    /\ \A i \in 2..Len(history) :
          IF i % 2 = 0
          THEN history[i].role = "user"
          ELSE /\ history[i].role = "assistant"
               /\ history[i - 1].role = "user"
               /\ history[i].content = Reply(history[i - 1].content[1])
    /\ Len(history) % 2 = 0 =>
          \E r \in ChatIds :
              /\ chats[r].state = "pending"
              /\ chats[r].attached
              /\ chats[r].conversationId = id
              /\ <<chats[r].message>> = history[Len(history)].content

C29_HistoryAlternates ==
    \A id \in DOMAIN conversationMap : Alternates(conversationMap[id], id)

(***************************************************************************)
(* C30  For every client IP and every instant t, a rateLimit(maxRequests,  *)
(* windowMs) middleware has let through at most maxRequests requests of    *)
(* that IP with times in (t - windowMs, t], also when other middlewares    *)
(* with other limits or windows run beside it.                             *)
(***************************************************************************)
Admitted(m, ip, t) ==
    {k \in 1..Len(served) :
        /\ served[k].limiter = m.name
        /\ served[k].ip = ip
        /\ served[k].status = 200
        /\ served[k].time > t - m.windowMs
        /\ served[k].time <= t}

WithinLimit(m) ==
    \A ip \in ClientIps, t \in Times : Cardinality(Admitted(m, ip, t)) <= m.maxRequests

C30_RateLimited == \A m \in Limiters : WithinLimit(m)

\* The same of a middleware that is the only one to have served requests.
AloneWithinLimit ==
    \A m \in Limiters :
        (\A k \in 1..Len(served) : served[k].limiter = m.name) => WithinLimit(m)

====
